---- MODULE Spec2Model ----
\* Request chain builder (RequestBuilder) and the batch of requests pending
\* responses (Requests) of ethcore/light/src/types/request/builder.rs.
EXTENDS Integers, Sequences, FiniteSets, TLC

\* ------------------------------------------------------------------ bounds
\* Longest request chain pushed onto a builder.
MaxReqs == 3

\* Scalar values (hashes, numbers) are opaque. A literal field holds the one
\* value of Literals; the outputs of responses range over Vals, so that a field
\* filled from an output is told from a literal and from another output's value.
Literals == {"lit"}
Vals == {"a", "b"}

\* ------------------------------------------- the request module's types
\* (request/mod.rs: Field, OutputKind, Output, the request and response kinds)
OutputKind == {"Hash", "Number"}

Scalar(v) == <<"Scalar", v>>
BackReference(req, idx) == <<"BackReference", req, idx>>
IsBackReference(field) == field[1] = "BackReference"

Output(kind, v) == <<kind, v>>

NoSuchOutput == "NoSuchOutput"

Kinds == {"HeaderProof", "Receipts", "TransactionIndex"}

\* The kind each field of a request requires, in field order.
fieldKinds(kind) ==
    CASE kind = "HeaderProof" -> <<"Number">>
      [] kind = "Receipts" -> <<"Hash">>
      [] kind = "TransactionIndex" -> <<"Hash">>

\* The kinds of the outputs a request declares: output index k is position k + 1.
declaredOutputs(kind) ==
    CASE kind = "HeaderProof" -> <<"Hash">>
      [] kind = "Receipts" -> <<>>
      [] kind = "TransactionIndex" -> <<"Number", "Hash">>

\* Back-references name a request index 0..MaxReqs and an output index
\* 0..MaxOutputs: no request is stored at index MaxReqs and no kind declares an
\* output at index MaxOutputs, so dangling references of both sorts are pushed.
MaxOutputs == Len(declaredOutputs("TransactionIndex"))

Fields == {Scalar(v) : v \in Literals}
            \cup {BackReference(i, k) : i \in 0..MaxReqs, k \in 0..MaxOutputs}

FieldSeqs(n) == [1..n -> Fields]

\* Every request a caller may hand to push.
AllRequests ==
    UNION {{[kind |-> kd, fields |-> fs] : fs \in FieldSeqs(Len(fieldKinds(kd)))} : kd \in Kinds}

\* Every response a caller may hand to supply_response: a response of some kind
\* carries one value per output of that kind.
AllResponses ==
    UNION {{[kind |-> kd, vals |-> vs] :
              vs \in [1..Len(declaredOutputs(kd)) -> Vals]} : kd \in Kinds}

NoRequest == [kind |-> "None", fields |-> <<>>]
NoResponse == [kind |-> "None", vals |-> <<>>]

EmptyMap == [x \in {} |-> 0]

\* HashMap::insert: the new value replaces an entry under the same key.
insert(map, key, value) == (key :> value) @@ map

\* ------------------------------------------------------------------ state
VARIABLES
    phase,          \* "builder" until build() consumes the builder, then "requests"
    output_kinds,   \* RequestBuilder.output_kinds
    requests,       \* RequestBuilder.requests, then Requests.requests
    outputs,        \* Requests.outputs
    answered,       \* Requests.answered
    built,          \* history: the request sequence as build() froze it
    op,             \* the last call: its name, argument and result
    pc,             \* "idle", or where a call of respond_to_all stands
    responses,      \* respond_to_all: the local vector `responses`
    start,          \* history: the cursor when respond_to_all was called
    iterations,     \* history: the executions of the loop body of respond_to_all
    targets         \* history: the index each collected response was accepted at

\* The variables of a call of respond_to_all.
rvars == <<pc, responses, start, iterations, targets>>

vars == <<phase, output_kinds, requests, outputs, answered, built, op, rvars>>

Call(name, request, response, result, value) ==
    [name |-> name, request |-> request, response |-> response,
     result |-> result, value |-> value]

\* ------------------------------------- the request module's capabilities
\* (request/mod.rs: IncompleteRequest, CheckedRequest, ResponseLike)

\* checker with `None => Ok(())`: a reference to an unregistered output passes.
checker_missing_ok(kinds, req, idx, kind) ==
    IF <<req, idx>> \in DOMAIN kinds /\ kinds[<<req, idx>>] # kind
    THEN NoSuchOutput ELSE "Ok"

\* checker with `Some(_) => Ok(())`: the registered kind is not compared.
checker_any_kind(kinds, req, idx, kind) ==
    IF <<req, idx>> \in DOMAIN kinds THEN "Ok" ELSE NoSuchOutput

\* The closure push hands to check_outputs: a back-reference is valid only when
\* the map holds an entry for it and the entry's kind is the required kind.
checker(kinds, req, idx, kind) ==
    IF <<req, idx>> \in DOMAIN kinds /\ kinds[<<req, idx>>] = kind
    THEN "Ok" ELSE NoSuchOutput

\* IncompleteRequest::check_outputs: every back-reference field is handed to the
\* checker with the kind the field requires; the first error is the result.
check_outputs(request, kinds) ==
    IF \A n \in 1..Len(request.fields) :
          IsBackReference(request.fields[n]) =>
              checker(kinds, request.fields[n][2], request.fields[n][3],
                      fieldKinds(request.kind)[n]) = "Ok"
    THEN "Ok" ELSE NoSuchOutput

\* IncompleteRequest::note_outputs folded over the closure of push: the first n
\* declared outputs of the request are inserted under (req_idx, output index).
RECURSIVE note_outputs(_, _, _, _)
note_outputs(kinds, req_idx, declared, n) ==
    IF n = 0 THEN kinds
    ELSE insert(note_outputs(kinds, req_idx, declared, n - 1),
                <<req_idx, n - 1>>, declared[n])

\* IncompleteRequest::complete: the request with every field a scalar, or
\* NoSuchOutput when a back-reference is left.
complete(request) ==
    IF \A n \in 1..Len(request.fields) : ~IsBackReference(request.fields[n])
    THEN [ok |-> TRUE, value |-> request]
    ELSE [ok |-> FALSE, value |-> NoRequest]

\* CheckedRequest::check_response: the response must be of the kind of the
\* request ("Fails on: wrong request kind").
check_response(request, completed, response) ==
    response.kind = request.kind

\* ResponseLike::fill_outputs folded over the closure of supply_response: the
\* first n outputs the response carries are inserted under (idx, output index).
RECURSIVE fill_outputs(_, _, _, _)
fill_outputs(outs, idx, response, n) ==
    IF n = 0 THEN outs
    ELSE insert(fill_outputs(outs, idx, response, n - 1), <<idx, n - 1>>,
                Output(declaredOutputs(response.kind)[n], response.vals[n]))

\* The oracle with `outputs.get(&(out_idx, req_idx))`.
oracle_swapped(outs, req_idx, out_idx) ==
    IF <<out_idx, req_idx>> \in DOMAIN outs
    THEN outs[<<out_idx, req_idx>>] ELSE Output(NoSuchOutput, NoSuchOutput)

\* The oracle supply_response hands to fill.
oracle(outs, req_idx, out_idx) ==
    IF <<req_idx, out_idx>> \in DOMAIN outs
    THEN outs[<<req_idx, out_idx>>] ELSE Output(NoSuchOutput, NoSuchOutput)

\* IncompleteRequest::fill: a back-reference whose output the oracle knows,
\* with the kind the field holds, becomes that scalar; any other field stays.
fill(request, outs) ==
    [request EXCEPT !.fields =
        [n \in 1..Len(request.fields) |->
            IF IsBackReference(request.fields[n])
               /\ oracle(outs, request.fields[n][2], request.fields[n][3])[1]
                      = fieldKinds(request.kind)[n]
            THEN Scalar(oracle(outs, request.fields[n][2], request.fields[n][3])[2])
            ELSE request.fields[n]]]

\* ---------------------------------------------------------- RequestBuilder
\* RequestBuilder::default
Init ==
    /\ phase = "builder"
    /\ output_kinds = EmptyMap
    /\ requests = <<>>
    /\ outputs = EmptyMap
    /\ answered = 0
    /\ built = <<>>
    /\ op = Call("default", NoRequest, NoResponse, "Ok", NoRequest)
    /\ pc = "idle"
    /\ responses = <<>>
    /\ start = 0
    /\ iterations = 0
    /\ targets = <<>>

\* push with req_idx read after the request was appended.
push_output_kinds_late_idx(kinds, req_idx, request) ==
    note_outputs(kinds, req_idx + 1, declaredOutputs(request.kind),
                 Len(declaredOutputs(request.kind)))

\* The output-kind map after a successful push of request at index req_idx.
push_output_kinds(kinds, req_idx, request) ==
    note_outputs(kinds, req_idx, declaredOutputs(request.kind),
                 Len(declaredOutputs(request.kind)))

\* push with the request inserted at the front of the sequence.
push_requests_front(reqs, request) == <<request>> \o reqs

\* The request sequence after a successful push.
push_requests(reqs, request) == Append(reqs, request)

\* RequestBuilder::push
push(request) ==
    /\ phase = "builder"
    /\ Len(requests) < MaxReqs \/ check_outputs(request, output_kinds) # "Ok"
    /\ IF check_outputs(request, output_kinds) = "Ok"
       THEN /\ output_kinds' = push_output_kinds(output_kinds, Len(requests), request)
            /\ requests' = push_requests(requests, request)
            /\ op' = Call("push", request, NoResponse, "Ok", NoRequest)
       ELSE /\ UNCHANGED <<output_kinds, requests>>
            /\ op' = Call("push", request, NoResponse, NoSuchOutput, NoRequest)
    /\ UNCHANGED <<phase, outputs, answered, built>>

\* build with `answered: self.requests.len()`.
build_all_answered ==
    /\ phase = "builder"
    /\ phase' = "requests"
    /\ outputs' = EmptyMap
    /\ requests' = requests
    /\ answered' = Len(requests)
    /\ output_kinds' = EmptyMap
    /\ built' = requests
    /\ op' = Call("build", NoRequest, NoResponse, "Ok", NoRequest)

\* build with `requests: Vec::new()`.
build_empty_requests ==
    /\ phase = "builder"
    /\ phase' = "requests"
    /\ outputs' = EmptyMap
    /\ requests' = <<>>
    /\ answered' = 0
    /\ output_kinds' = EmptyMap
    /\ built' = requests
    /\ op' = Call("build", NoRequest, NoResponse, "Ok", NoRequest)

\* RequestBuilder::build: the builder is consumed, its output-kind map dropped.
build ==
    /\ phase = "builder"
    /\ phase' = "requests"
    /\ outputs' = EmptyMap
    /\ requests' = requests
    /\ answered' = 0
    /\ output_kinds' = EmptyMap
    /\ built' = requests
    /\ op' = Call("build", NoRequest, NoResponse, "Ok", NoRequest)

\* ---------------------------------------------------------------- Requests
\* Requests::num_answered
num_answered == answered

\* is_complete comparing the index of the last request with the cursor.
is_complete_last_index == answered = Len(requests) - 1

\* Requests::is_complete
is_complete == answered = Len(requests)

\* The result of Requests::next_complete in the current state: None, Some of the
\* completed request at the cursor, or the panic of the expect.
next_complete_result ==
    IF is_complete THEN [tag |-> "None", value |-> NoRequest]
    ELSE IF complete(requests[answered + 1]).ok
         THEN [tag |-> "Some", value |-> complete(requests[answered + 1]).value]
         ELSE [tag |-> "Panic", value |-> NoRequest]

\* Requests::next_complete
next_complete ==
    /\ phase = "requests"
    /\ op' = Call("next_complete", NoRequest, NoResponse,
                  next_complete_result.tag, next_complete_result.value)
    /\ phase' = IF next_complete_result.tag = "Panic" THEN "panicked" ELSE phase
    /\ UNCHANGED <<output_kinds, requests, outputs, answered, built>>

\* supply_response with `self.outputs = HashMap::new()` before fill_outputs.
supply_outputs_fresh(outs, idx, response) ==
    fill_outputs(EmptyMap, idx, response, Len(declaredOutputs(response.kind)))

\* supply_response with `idx` read after `self.answered += 1`.
supply_outputs_next_idx(outs, idx, response) ==
    fill_outputs(outs, idx + 1, response, Len(declaredOutputs(response.kind)))

\* The resolved-output map after the response at index idx was accepted.
supply_outputs(outs, idx, response) ==
    fill_outputs(outs, idx, response, Len(declaredOutputs(response.kind)))

\* supply_response returning Unexpected only past the end (`idx > len`).
supply_unexpected_past_end(idx, len) == idx > len

\* supply_response: no request is pending.
supply_unexpected(idx, len) == idx = len

\* supply_response without `self.answered += 1`.
supply_answered_stuck(idx) == idx

\* The cursor after the response was accepted.
supply_answered(idx) == idx + 1

\* The propagation pass with `skip(self.answered + 1)`.
supply_fill_skip_next(reqs, new_answered, outs) ==
    [p \in 1..Len(reqs) |->
        IF p - 1 > new_answered THEN fill(reqs[p], outs) ELSE reqs[p]]

\* The propagation pass on the next request alone.
supply_fill_only_next(reqs, new_answered, outs) ==
    [p \in 1..Len(reqs) |->
        IF p - 1 = new_answered THEN fill(reqs[p], outs) ELSE reqs[p]]

\* The propagation pass: every request from index new_answered on is filled
\* from the resolved-output map.
supply_fill(reqs, new_answered, outs) ==
    [p \in 1..Len(reqs) |->
        IF p - 1 >= new_answered THEN fill(reqs[p], outs) ELSE reqs[p]]

\* supply_response recording the outputs of the response before check_response.
supply_response_outputs_first(response) ==
    /\ phase = "requests"
    /\ IF supply_unexpected(answered, Len(requests))
       THEN /\ op' = Call("supply_response", NoRequest, response, "Unexpected", NoRequest)
            /\ UNCHANGED <<phase, requests, outputs, answered>>
       ELSE IF next_complete_result.tag # "Some"
       THEN /\ op' = Call("supply_response", NoRequest, response, "Panic", NoRequest)
            /\ phase' = "panicked"
            /\ UNCHANGED <<requests, outputs, answered>>
       ELSE IF ~check_response(requests[answered + 1], next_complete_result.value, response)
       THEN /\ op' = Call("supply_response", NoRequest, response, "Validity", NoRequest)
            /\ outputs' = supply_outputs(outputs, answered, response)
            /\ UNCHANGED <<phase, requests, answered>>
       ELSE /\ outputs' = supply_outputs(outputs, answered, response)
            /\ answered' = supply_answered(answered)
            /\ requests' = supply_fill(requests, answered', outputs')
            /\ op' = Call("supply_response", NoRequest, response, "Ok", NoRequest)
            /\ UNCHANGED phase
    /\ UNCHANGED <<output_kinds, built>>

\* Requests::supply_response
supply_response(response) ==
    /\ phase = "requests"
    /\ IF supply_unexpected(answered, Len(requests))
       THEN /\ op' = Call("supply_response", NoRequest, response, "Unexpected", NoRequest)
            /\ UNCHANGED <<phase, requests, outputs, answered>>
       ELSE IF next_complete_result.tag # "Some"
       THEN /\ op' = Call("supply_response", NoRequest, response, "Panic", NoRequest)
            /\ phase' = "panicked"
            /\ UNCHANGED <<requests, outputs, answered>>
       ELSE IF ~check_response(requests[answered + 1], next_complete_result.value, response)
       THEN /\ op' = Call("supply_response", NoRequest, response, "Validity", NoRequest)
            /\ UNCHANGED <<phase, requests, outputs, answered>>
       ELSE /\ outputs' = supply_outputs(outputs, answered, response)
            /\ answered' = supply_answered(answered)
            /\ requests' = supply_fill(requests, answered', outputs')
            /\ op' = Call("supply_response", NoRequest, response, "Ok", NoRequest)
            /\ UNCHANGED phase
    /\ UNCHANGED <<output_kinds, built>>

\* The functions handed to map_requests: the identity, a re-tagging of every
\* request as a receipts request, and the replacement of every field by a literal.
MapFns == {"identity", "as_receipts", "literal"}

map_fn(f, request) ==
    CASE f = "identity" -> request
      [] f = "as_receipts" -> [request EXCEPT !.kind = "Receipts"]
      [] f = "literal" ->
            [request EXCEPT !.fields = [n \in 1..Len(request.fields) |-> Scalar("lit")]]

\* map_requests with `answered: 0`.
map_requests_reset_cursor(f) ==
    /\ phase = "requests"
    /\ requests' = [p \in 1..Len(requests) |-> map_fn(f, requests[p])]
    /\ outputs' = outputs
    /\ answered' = 0
    /\ op' = Call("map_requests", NoRequest, NoResponse, f, NoRequest)
    /\ phase' = "mapped"
    /\ UNCHANGED <<output_kinds, built>>

\* Requests::map_requests; the call records the function in place of a result.
\* The batch is consumed: phase "mapped" is the batch of mapped requests, a
\* Requests of another request type, which is not followed further.
map_requests(f) ==
    /\ phase = "requests"
    /\ requests' = [p \in 1..Len(requests) |-> map_fn(f, requests[p])]
    /\ outputs' = outputs
    /\ answered' = answered
    /\ op' = Call("map_requests", NoRequest, NoResponse, f, NoRequest)
    /\ phase' = "mapped"
    /\ UNCHANGED <<output_kinds, built>>

\* respond_to_all pushing the response whatever supply_response returned.
respond_push_always(acc, response, result) == Append(acc, response)

\* respond_to_all: `Ok(()) => responses.push(response)`.
respond_push(acc, response, result) ==
    IF result = "Ok" THEN Append(acc, response) ELSE acc

\* respond_to_all with the `return responses` of the error arm in both arms.
respond_continues_never(result) == FALSE

\* respond_to_all without the `return responses` of the error arm.
respond_continues_always(result) == TRUE

\* respond_to_all: the loop goes on after Ok and returns after Err.
respond_continues(result) == result = "Ok"

\* Requests::respond_to_all, entered: `let mut responses = Vec::new()`.
respond_to_all ==
    /\ phase = "requests"
    /\ pc = "idle"
    /\ pc' = "respond_to_all"
    /\ responses' = <<>>
    /\ start' = answered
    /\ iterations' = 0
    /\ targets' = <<>>
    /\ op' = Call("respond_to_all", NoRequest, NoResponse, "Ok", NoRequest)
    /\ UNCHANGED <<phase, output_kinds, requests, outputs, answered, built>>

\* Requests::respond_to_all, one turn of the loop: next_complete, then the
\* responder, which answers the completed request with `answer` (NoResponse for
\* None), then supply_response and the match on its result.
respond_to_all_loop(answer) ==
    /\ phase = "requests"
    /\ pc = "respond_to_all"
    /\ IF next_complete_result.tag = "None"
          \/ (next_complete_result.tag = "Some" /\ answer = NoResponse)
       THEN /\ pc' = "returned"
            /\ op' = Call("next_complete", NoRequest, NoResponse,
                          next_complete_result.tag, next_complete_result.value)
            /\ UNCHANGED <<phase, output_kinds, requests, outputs, answered, built>>
            /\ UNCHANGED <<responses, start, iterations, targets>>
       ELSE IF next_complete_result.tag = "Panic"
       THEN /\ pc' = "returned"
            /\ phase' = "panicked"
            /\ op' = Call("next_complete", NoRequest, NoResponse, "Panic", NoRequest)
            /\ UNCHANGED <<output_kinds, requests, outputs, answered, built>>
            /\ UNCHANGED <<responses, start, iterations, targets>>
       ELSE /\ supply_response(answer)
            /\ iterations' = iterations + 1
            /\ responses' = respond_push(responses, answer, op'.result)
            /\ targets' = IF op'.result = "Ok" THEN Append(targets, answered) ELSE targets
            /\ pc' = IF respond_continues(op'.result) THEN pc ELSE "returned"
            /\ UNCHANGED start

\* No call of respond_to_all is under way.
idle == pc = "idle" /\ UNCHANGED rvars

Next ==
    \/ \E request \in AllRequests : push(request) /\ idle
    \/ build /\ idle
    \/ next_complete /\ idle
    \/ \E response \in AllResponses : supply_response(response) /\ idle

Spec == Init /\ [][Next]_vars

\* The builder and the batch with map_requests.
NextMap ==
    \/ \E request \in AllRequests : push(request) /\ idle
    \/ build /\ idle
    \/ \E response \in AllResponses : supply_response(response) /\ idle
    \/ \E f \in MapFns : map_requests(f) /\ idle

SpecMap == Init /\ [][NextMap]_vars

\* The builder and the batch with respond_to_all, which consumes the batch.
NextRespond ==
    \/ \E request \in AllRequests : push(request) /\ idle
    \/ build /\ idle
    \/ \E response \in AllResponses : supply_response(response) /\ idle
    \/ respond_to_all
    \/ \E answer \in AllResponses \cup {NoResponse} : respond_to_all_loop(answer)

SpecRespond == Init /\ [][NextRespond]_vars


\* ================================================================== claims

\* Some field of the request is a back-reference the output-kind map has no entry for.
HasMissingRef(request, kinds) ==
    \E n \in 1..Len(request.fields) :
        /\ IsBackReference(request.fields[n])
        /\ <<request.fields[n][2], request.fields[n][3]>> \notin DOMAIN kinds

\* Some field of the request is a back-reference whose entry holds another kind
\* than the kind the field requires.
HasMismatchedRef(request, kinds) ==
    \E n \in 1..Len(request.fields) :
        /\ IsBackReference(request.fields[n])
        /\ <<request.fields[n][2], request.fields[n][3]>> \in DOMAIN kinds
        /\ kinds[<<request.fields[n][2], request.fields[n][3]>>]
              # fieldKinds(request.kind)[n]

\* Some field of the request is a back-reference.
HasBackReference(request) ==
    \E n \in 1..Len(request.fields) : IsBackReference(request.fields[n])

\* C1: in every state reached by pushes, build and supply_response calls, the
\* request at the cursor converts to its complete form whenever answered < len:
\* neither next_complete nor supply_response reaches the panic of the expect.
C1_CompleteNeverFails ==
    /\ phase # "panicked"
    /\ op.result # "Panic"
    /\ (phase = "requests" /\ answered < Len(requests))
          => /\ complete(requests[answered + 1]).ok
             /\ ~HasBackReference(requests[answered + 1])

\* C1 witness: the cursor has moved onto a request that was built with a
\* back-reference, and next_complete returned its complete form.
C1_Witness ==
    /\ phase = "requests"
    /\ answered >= 1
    /\ answered < Len(requests)
    /\ HasBackReference(built[answered + 1])
    /\ op.name = "next_complete"
    /\ op.result = "Some"

\* C2: a push of a request with a back-reference the output-kind map has no
\* entry for fails with NoSuchOutput and leaves the request sequence and the
\* output-kind map as they were, also when the request declares outputs.
C2_MissingRefRejected ==
    [][(op'.name = "push" /\ phase = "builder" /\ HasMissingRef(op'.request, output_kinds))
         => /\ op'.result = NoSuchOutput
            /\ requests' = requests
            /\ Len(requests') = Len(requests)
            /\ output_kinds' = output_kinds]_vars

\* C2 witness: a request that declares outputs and names an unregistered output
\* was pushed onto a builder that holds requests, and was rejected.
C2_Witness ==
    /\ phase = "builder"
    /\ op.name = "push"
    /\ op.result = NoSuchOutput
    /\ HasMissingRef(op.request, output_kinds)
    /\ declaredOutputs(op.request.kind) # <<>>
    /\ Len(requests) >= 1
    /\ DOMAIN output_kinds # {}

\* C3: a push of a request with a back-reference whose entry exists with another
\* kind than the field requires fails with NoSuchOutput and changes nothing.
C3_WrongKindRejected ==
    [][(op'.name = "push" /\ phase = "builder" /\ HasMismatchedRef(op'.request, output_kinds))
         => /\ op'.result = NoSuchOutput
            /\ requests' = requests
            /\ output_kinds' = output_kinds]_vars

\* C3 witness: a rejected push whose only back-reference names a registered
\* output of the wrong kind.
C3_Witness ==
    /\ phase = "builder"
    /\ op.name = "push"
    /\ op.result = NoSuchOutput
    /\ HasMismatchedRef(op.request, output_kinds)
    /\ ~HasMissingRef(op.request, output_kinds)

\* Every back-reference of the request names an entry of the map with the kind
\* the field requires (no back-reference at all included).
AllRefsRegistered(request, kinds) ==
    \A n \in 1..Len(request.fields) :
        IsBackReference(request.fields[n]) =>
            /\ <<request.fields[n][2], request.fields[n][3]>> \in DOMAIN kinds
            /\ kinds[<<request.fields[n][2], request.fields[n][3]>>]
                  = fieldKinds(request.kind)[n]

\* C4: a push whose back-references all name registered outputs of the required
\* kind succeeds; the request is appended at index new_index = the length before
\* the call, and each output k it declares is registered at (new_index, k) with
\* its declared kind.
C4_ValidPushAppends ==
    [][(op'.name = "push" /\ phase = "builder" /\ AllRefsRegistered(op'.request, output_kinds))
         => /\ op'.result = "Ok"
            /\ Len(requests') = Len(requests) + 1
            /\ requests'[Len(requests) + 1] = op'.request
            /\ \A j \in 1..Len(requests) : requests'[j] = requests[j]
            /\ \A k \in 0..(Len(declaredOutputs(op'.request.kind)) - 1) :
                  /\ <<Len(requests), k>> \in DOMAIN output_kinds'
                  /\ output_kinds'[<<Len(requests), k>>]
                        = declaredOutputs(op'.request.kind)[k + 1]]_vars

\* C4 witness: a request with a back-reference and declared outputs was pushed
\* with success onto a builder that held requests.
C4_Witness ==
    /\ phase = "builder"
    /\ op.name = "push"
    /\ op.result = "Ok"
    /\ Len(requests) >= 2
    /\ requests[Len(requests)] = op.request
    /\ HasBackReference(op.request)
    /\ Len(declaredOutputs(op.request.kind)) = 2
    /\ output_kinds[<<Len(requests) - 1, 1>>] = "Hash"

\* C5: in the builder, every back-reference (i, k) of the request stored at index
\* j has i < j, and request i declares output k with the kind the referencing
\* field requires; every key (i, k) of the output-kind map has i < the number of
\* stored requests and maps to the kind request i declared for output k.
C5_BackReferencesPointBack ==
    phase = "builder" =>
        /\ \A j \in 1..Len(requests) : \A n \in 1..Len(requests[j].fields) :
              IsBackReference(requests[j].fields[n]) =>
                  /\ requests[j].fields[n][2] < j - 1
                  /\ requests[j].fields[n][3]
                        < Len(declaredOutputs(requests[requests[j].fields[n][2] + 1].kind))
                  /\ declaredOutputs(requests[requests[j].fields[n][2] + 1].kind)
                                                      [requests[j].fields[n][3] + 1]
                        = fieldKinds(requests[j].kind)[n]
        /\ \A key \in DOMAIN output_kinds :
              /\ key[1] < Len(requests)
              /\ key[2] < Len(declaredOutputs(requests[key[1] + 1].kind))
              /\ output_kinds[key] = declaredOutputs(requests[key[1] + 1].kind)[key[2] + 1]

\* C5 witness: a chain of three requests, the third referencing the second and
\* the second the first, after a push was rejected.
C5_Witness ==
    /\ phase = "builder"
    /\ Len(requests) = 3
    /\ requests[2].fields[1] = BackReference(0, 0)
    /\ requests[3].fields[1] = BackReference(1, 0)
    /\ op.name = "push"
    /\ op.result = NoSuchOutput

\* C6: the cursor is 0 right after build, grows by exactly 1 on each successful
\* supply_response, is left alone by every failed supply_response and by
\* next_complete, never decreases, and stays within 0..len.
C6_CursorSteps ==
    [][/\ (op'.name = "build" => answered' = 0)
       /\ (op'.name = "supply_response" /\ op'.result = "Ok"
              => answered' = answered + 1)
       /\ (op'.name = "supply_response" /\ op'.result # "Ok"
              => answered' = answered)
       /\ (op'.name = "next_complete" => answered' = answered)
       /\ answered' >= answered
       /\ 0 <= answered'
       /\ answered' <= Len(requests')]_vars

\* C6 witness: after a successful supply_response moved the cursor, a failed one
\* was made with requests still pending.
C6_Witness ==
    /\ phase = "requests"
    /\ op.name = "supply_response"
    /\ op.result = "Validity"
    /\ answered >= 1
    /\ answered < Len(requests)

\* C7: when check_response rejects the response (it is not of the kind of the
\* pending request), supply_response returns Validity and leaves the cursor,
\* the resolved-output map and every stored request unchanged, so that the
\* batch accepts afterwards exactly the responses it accepted before.
C7_ValidityChangesNothing ==
    [][(/\ op'.name = "supply_response"
        /\ phase = "requests"
        /\ answered < Len(requests)
        /\ op'.response.kind # requests[answered + 1].kind)
         => /\ op'.result = "Validity"
            /\ answered' = answered
            /\ outputs' = outputs
            /\ requests' = requests
            /\ phase' = phase
            /\ \A response \in AllResponses :
                  check_response(requests'[answered' + 1], requests'[answered' + 1], response)
                    <=> check_response(requests[answered + 1], requests[answered + 1], response)]_vars

\* C7 witness: a response that carries outputs was rejected while a request
\* filled from an earlier output was pending.
C7_Witness ==
    /\ phase = "requests"
    /\ op.name = "supply_response"
    /\ op.result = "Validity"
    /\ Len(op.response.vals) > 0
    /\ answered >= 1
    /\ answered < Len(requests)
    /\ HasBackReference(built[answered + 1])

\* C8: supply_response on a batch with answered = len (an empty batch
\* included) fails with Unexpected whatever the response, and changes neither
\* the cursor, the resolved-output map nor the requests.
C8_UnexpectedWhenComplete ==
    [][(/\ op'.name = "supply_response"
        /\ phase = "requests"
        /\ answered = Len(requests))
         => /\ op'.result = "Unexpected"
            /\ answered' = answered
            /\ outputs' = outputs
            /\ requests' = requests
            /\ phase' = phase]_vars

\* C8 witness: a fully answered batch of requests was handed one more response,
\* of the kind of its last request.
C8_Witness ==
    /\ phase = "requests"
    /\ op.name = "supply_response"
    /\ op.result = "Unexpected"
    /\ Len(requests) >= 2
    /\ answered = Len(requests)
    /\ op.response.kind = requests[Len(requests)].kind

\* The value a field of the batch as built resolves to: a literal is itself, a
\* back-reference is the recorded output it names.
Resolved(field) ==
    IF IsBackReference(field)
    THEN Scalar(outputs[<<field[2], field[3]>>][2])
    ELSE field

\* C9: in every state of a batch, is_complete() is true iff num_answered() is
\* the number of requests, and next_complete() returns nothing iff is_complete()
\* is true; otherwise it returns the resolved view of the request at the cursor.
C9_CompleteIffAllAnswered ==
    phase = "requests" =>
        /\ is_complete <=> (num_answered = Len(requests))
        /\ (next_complete_result.tag = "None") <=> is_complete
        /\ (answered < Len(requests)) =>
              /\ next_complete_result.tag = "Some"
              /\ next_complete_result.value.kind = built[answered + 1].kind
              /\ next_complete_result.value.fields
                    = [n \in 1..Len(built[answered + 1].fields) |->
                          Resolved(built[answered + 1].fields[n])]
        /\ op.name = "next_complete" =>
              /\ (op.result = "None") <=> (answered = Len(requests))
              /\ op.result = next_complete_result.tag
              /\ op.value = next_complete_result.value

\* C9 witness: next_complete returned nothing on a batch of requests that were
\* all answered.
C9_Witness ==
    /\ phase = "requests"
    /\ Len(requests) >= 2
    /\ answered = Len(requests)
    /\ op.name = "next_complete"
    /\ op.result = "None"

\* C10: after a successful supply_response for the request at index i whose
\* response carries output (i, k), every stored request at an index > i whose
\* field was the back-reference (i, k) holds the value of that output.
C10_OutputsPropagate ==
    [][(op'.name = "supply_response" /\ op'.result = "Ok")
         => \A j \in 1..Len(requests) : \A n \in 1..Len(requests[j].fields) :
              \A k \in 0..(Len(op'.response.vals) - 1) :
                (j - 1 > answered /\ requests[j].fields[n] = BackReference(answered, k))
                  => /\ requests'[j].fields[n] = Scalar(op'.response.vals[k + 1])
                     /\ requests'[j].fields[n] = Scalar(outputs'[<<answered, k>>][2])]_vars

\* C10 witness: the first response was accepted and the third request, which
\* is not the next one to answer, holds the value of the output it referenced.
C10_Witness ==
    /\ phase = "requests"
    /\ op.name = "supply_response"
    /\ op.result = "Ok"
    /\ answered = 1
    /\ Len(requests) = 3
    /\ built[3].fields[1] = BackReference(0, 1)
    /\ requests[3].fields[1] = Scalar(op.response.vals[2])
    /\ op.response.vals[1] # op.response.vals[2]

\* C11: in every state of a batch, each request at an index i < answered has no
\* back-reference left, and it had none in the state in which the cursor moved
\* past it.
C11_AnsweredAreResolved ==
    [][/\ phase' = "requests"
            => \A i \in 1..answered' : ~HasBackReference(requests'[i])
       /\ answered' > answered
            => \A i \in (answered + 1)..answered' : ~HasBackReference(requests[i])]_vars

\* C11 witness: two requests are answered and the second was built with a
\* back-reference.
C11_Witness ==
    /\ phase = "requests"
    /\ op.name = "supply_response"
    /\ op.result = "Ok"
    /\ answered = 2
    /\ HasBackReference(built[2])
    /\ ~HasBackReference(requests[2])

\* C14: build yields a batch whose request sequence is the builder's sequence,
\* that is the successfully pushed requests in push order, with an empty
\* resolved-output map and answered = 0; the output-kind map is not carried over.
C14_BuildFreezesRequests ==
    [][/\ (op'.name = "push" /\ phase = "builder")
            => requests' = IF op'.result = "Ok"
                           THEN Append(requests, op'.request) ELSE requests
       /\ op'.name = "build"
            => /\ phase' = "requests"
               /\ requests' = requests
               /\ DOMAIN outputs' = {}
               /\ answered' = 0
               /\ DOMAIN output_kinds' = {}]_vars

\* C14 witness: a builder that held a chain of three requests and registered
\* output kinds was built.
C14_Witness ==
    /\ phase = "requests"
    /\ op.name = "build"
    /\ Len(requests) = 3
    /\ HasBackReference(requests[2])
    /\ HasBackReference(requests[3])
    /\ answered = 0

\* C15: a push neither removes nor changes an entry of the output-kind map, and
\* a supply_response neither removes nor changes an entry of the
\* resolved-output map.
C15_MapsAppendOnly ==
    [][/\ (op'.name = "push" /\ phase = "builder")
            => \A key \in DOMAIN output_kinds :
                  /\ key \in DOMAIN output_kinds'
                  /\ output_kinds'[key] = output_kinds[key]
       /\ op'.name = "supply_response"
            => \A key \in DOMAIN outputs :
                  /\ key \in DOMAIN outputs'
                  /\ outputs'[key] = outputs[key]]_vars

\* C15 witness: a second response with outputs was accepted after a first one
\* whose outputs are still recorded.
C15_Witness ==
    /\ phase = "requests"
    /\ op.name = "supply_response"
    /\ op.result = "Ok"
    /\ answered = 2
    /\ <<0, 0>> \in DOMAIN outputs
    /\ <<1, 0>> \in DOMAIN outputs
    /\ <<1, 1>> \in DOMAIN outputs
    /\ outputs[<<0, 0>>][2] # outputs[<<1, 1>>][2]

\* C17: a supply_response with a request pending is decided by the request at
\* the cursor alone, and on success records exactly the outputs the response
\* carries under (cursor before the call, output index), the cursor moving to
\* the next index.
C17_OutputsUnderOldCursor ==
    [][(op'.name = "supply_response" /\ phase = "requests" /\ answered < Len(requests))
         => /\ (op'.result = "Ok") <=> (op'.response.kind = requests[answered + 1].kind)
            /\ op'.result = "Ok"
                 => /\ answered' = answered + 1
                    /\ DOMAIN outputs' = DOMAIN outputs \cup
                          {<<answered, k>> : k \in 0..(Len(op'.response.vals) - 1)}
                    /\ \A k \in 0..(Len(op'.response.vals) - 1) :
                          outputs'[<<answered, k>>]
                            = Output(declaredOutputs(op'.response.kind)[k + 1],
                                     op'.response.vals[k + 1])
                    /\ \A key \in DOMAIN outputs' : key[1] # answered']_vars

\* C17 witness: the second of three requests was answered by a response with
\* two outputs, of a kind that fits neither the first nor the third request.
C17_Witness ==
    /\ phase = "requests"
    /\ op.name = "supply_response"
    /\ op.result = "Ok"
    /\ answered = 2
    /\ Len(requests) = 3
    /\ Len(op.response.vals) = 2
    /\ op.response.kind # requests[1].kind
    /\ op.response.kind # requests[3].kind
    /\ outputs[<<1, 1>>] = Output("Hash", op.response.vals[2])

\* C18: the propagation pass of a successful supply_response leaves a
\* back-reference whose source request is not answered as it is, leaves every
\* field that is a value as it is, does not touch the requests below the new
\* cursor, does not make supply_response fail, and changes nothing when run again.
C18_PropagationMonotone ==
    [][/\ (op'.name = "supply_response" /\ phase = "requests"
            /\ answered < Len(requests)
            /\ op'.response.kind = requests[answered + 1].kind)
            => op'.result = "Ok"
       /\ (op'.name = "supply_response" /\ op'.result = "Ok")
            => /\ Len(requests') = Len(requests)
               /\ \A p \in 1..Len(requests) :
                     /\ requests'[p].kind = requests[p].kind
                     /\ p - 1 < answered' => requests'[p] = requests[p]
                     /\ \A n \in 1..Len(requests[p].fields) :
                           /\ ~IsBackReference(requests[p].fields[n])
                                => requests'[p].fields[n] = requests[p].fields[n]
                           /\ (IsBackReference(requests[p].fields[n])
                               /\ requests[p].fields[n][2] >= answered')
                                => requests'[p].fields[n] = requests[p].fields[n]
               /\ supply_fill(requests', answered', outputs') = requests']_vars

\* C18 witness: the first response was accepted; the second request was filled
\* from it and the third still holds its back-reference to the second.
C18_Witness ==
    /\ phase = "requests"
    /\ op.name = "supply_response"
    /\ op.result = "Ok"
    /\ answered = 1
    /\ Len(requests) = 3
    /\ HasBackReference(built[2])
    /\ ~HasBackReference(requests[2])
    /\ requests[3].fields[1] = BackReference(1, 0)
    /\ <<0, 1>> \in DOMAIN outputs

\* C20: in every state of a batch, every key (i, k) of the resolved-output map
\* has i < answered, and a field of an unanswered request that was filled names
\* an output of a request below the cursor.
C20_OutputsBelowCursor ==
    phase = "requests" =>
        /\ \A key \in DOMAIN outputs : key[1] < answered
        /\ \A p \in (answered + 1)..Len(requests) : \A n \in 1..Len(requests[p].fields) :
              (IsBackReference(built[p].fields[n]) /\ ~IsBackReference(requests[p].fields[n]))
                 => built[p].fields[n][2] < answered

\* C20 witness: outputs are recorded for the first request alone, and a pending
\* request holds a field filled from them.
C20_Witness ==
    /\ phase = "requests"
    /\ answered = 1
    /\ Len(requests) = 3
    /\ DOMAIN outputs = {<<0, 0>>, <<0, 1>>}
    /\ IsBackReference(built[3].fields[1])
    /\ ~IsBackReference(requests[3].fields[1])
    /\ IsBackReference(requests[2].fields[1]) = FALSE

\* C12 as stated: the result of respond_to_all is a prefix of at most len
\* responses in which response j was accepted by request j.
C12_ResponseJAnswersRequestJ ==
    (pc \in {"respond_to_all", "returned"} /\ phase = "requests") =>
        /\ Len(responses) <= Len(requests)
        /\ \A j \in 1..Len(responses) :
              /\ targets[j] = j - 1
              /\ responses[j].kind = built[j].kind

\* C12, amended: respond_to_all called with the cursor at `start` collects, in
\* request order, the responses of the longest initial run of turns in which
\* the responder returned a response and supply_response accepted it: response
\* j was accepted by request start + j, at most len - start of them; the loop
\* returns at the first turn without an accepted response, and the responses
\* collected before stay as they are.
C12_RespondPrefix ==
    [][(pc' \in {"respond_to_all", "returned"} /\ phase' = "requests") =>
         /\ Len(responses') = Len(targets')
         /\ Len(responses') = answered' - start'
         /\ Len(responses') <= Len(requests') - start'
         /\ \A j \in 1..Len(responses') :
               /\ targets'[j] = start' + j - 1
               /\ responses'[j].kind = built'[start' + j].kind
         /\ pc = "respond_to_all" =>
               /\ Len(responses) <= Len(responses')
               /\ \A j \in 1..Len(responses) : responses'[j] = responses[j]
               /\ (op'.name = "supply_response" /\ op'.result = "Ok")
                    => /\ pc' = "respond_to_all"
                       /\ responses' = Append(responses, op'.response)
               /\ ~(op'.name = "supply_response" /\ op'.result = "Ok")
                    => /\ pc' = "returned"
                       /\ responses' = responses]_vars

\* C12 witness: respond_to_all, called with one request answered already,
\* collected one response and returned at a response that was rejected.
C12_Witness ==
    /\ phase = "requests"
    /\ pc = "returned"
    /\ start = 1
    /\ Len(requests) = 3
    /\ Len(responses) = 1
    /\ targets = <<1>>
    /\ op.name = "supply_response"
    /\ op.result = "Validity"

\* C13 as stated: respond_to_all returns a sequence as long as the batch
\* exactly when every request of the batch was answered.
C13_FullLengthIffComplete ==
    (pc = "returned" /\ phase = "requests") =>
        ((Len(responses) = Len(requests)) <=> is_complete)

\* C13, amended: every collected response is one successful supply_response;
\* the loop does not return after an accepted response, so with valid responses
\* throughout it returns with answered = len; the returned sequence has length
\* len - start (len for a batch handed over unanswered) exactly when every
\* request of the batch was answered.
C13_CompleteIffAllCollected ==
    (pc \in {"respond_to_all", "returned"} /\ phase = "requests") =>
        /\ Len(responses) = answered - start
        /\ pc = "returned" =>
              /\ ~(op.name = "supply_response" /\ op.result = "Ok")
              /\ is_complete <=> (op.name = "next_complete" /\ op.result = "None")
              /\ (Len(responses) = Len(requests) - start) <=> is_complete
              /\ start = 0 => ((Len(responses) = Len(requests)) <=> is_complete)

\* C13 witness: respond_to_all, called with one of three requests answered,
\* returned two responses with the batch complete.
C13_Witness ==
    /\ phase = "requests"
    /\ pc = "returned"
    /\ start = 1
    /\ Len(requests) = 3
    /\ Len(responses) = 2
    /\ is_complete

\* C16: map_requests(f) yields a batch of as many requests, request i being f
\* of the original request i, with the resolved-output map and the cursor of
\* the original.
C16_MapKeepsOutputsAndCursor ==
    [][(op'.name = "map_requests" /\ phase = "requests")
         => /\ Len(requests') = Len(requests)
            /\ \A p \in 1..Len(requests) : requests'[p] = map_fn(op'.result, requests[p])
            /\ outputs' = outputs
            /\ answered' = answered]_vars

\* C16 witness: a partly answered batch with recorded outputs and a pending
\* back-reference was mapped by a function that changes its requests.
C16_Witness ==
    /\ phase = "mapped"
    /\ op.name = "map_requests"
    /\ op.result = "as_receipts"
    /\ Len(requests) = 3
    /\ answered = 1
    /\ DOMAIN outputs = {<<0, 0>>}
    /\ requests # built
    /\ requests[1].kind = "Receipts"
    /\ HasBackReference(requests[3])

\* C19: the loop of respond_to_all ends: every turn either returns or moves the
\* cursor by one, a turn on a complete batch returns, a turn is always possible
\* while the loop runs, and the loop body runs at most len times.
C19_RespondTerminates ==
    /\ [](pc = "respond_to_all" =>
             /\ ENABLED (\E answer \in AllResponses \cup {NoResponse} :
                            respond_to_all_loop(answer))
             /\ iterations = answered - start
             /\ answered <= Len(requests))
    /\ [][pc = "respond_to_all" =>
             /\ pc' = "returned" \/ (pc' = "respond_to_all" /\ answered' = answered + 1)
             /\ is_complete => pc' = "returned"
             /\ iterations' <= Len(requests)]_vars

\* C19 witness: respond_to_all returned after its loop body ran once for each
\* of three requests.
C19_Witness ==
    /\ phase = "requests"
    /\ pc = "returned"
    /\ start = 0
    /\ Len(requests) = 3
    /\ iterations = 3

====
